---- MODULE Spec2Model ----
(***************************************************************************)
(* The live-location broadcast subsystem of daladala-live                  *)
(* (src/src/ws/ws.py, the variant that answers malformed JSON; the copy    *)
(* in src/src/daladala_live/vehicles/ws.py has the same registry and the   *)
(* same accept sequence).                                                  *)
(*                                                                         *)
(* One coroutine (session) per websocket runs vehicle_locations.  A step   *)
(* of the model is the completion of one `await` of that coroutine; the    *)
(* event loop may run any other session between two awaits.                *)
(*                                                                         *)
(* Beside it, three parts of the request/response side, each with its own  *)
(* specification over its own variables:                                   *)
(*   SpecTok       the token module, daladala_live/core/security.py        *)
(*   SpecRoutes    replace_route_nodes and delete_route of                 *)
(*                 volta_api/routes/service.py                             *)
(*   SpecVehicles  register_vehicle of volta_api/vehicles/router.py        *)
(***************************************************************************)
EXTENDS Integers, Sequences, FiniteSets, TLC

\* ------------------------------------------------------------------ bounds
\* Number of inbound frames the model lets the clients send, in total.
MaxMsgs == 2

\* Longest time without an append the model follows, in ticks.
MaxIdleTicks == 2

\* Number of tokens the model lets the create_* functions issue.
MaxTokens == 2

\* Ticks past the expiry of an access token that the clock is followed.
MaxSlack == 2

\* ------------------------------------------------------- program constants
\* The websockets (one session each), named in the order in which their
\* handshakes are answered: the sessions are interchangeable, so this
\* naming loses no behaviour.
Arrival == <<"c1", "c2", "c3">>
Conn == {Arrival[i] : i \in DOMAIN Arrival}
Earlier(c) == {Arrival[i] : i \in {j \in DOMAIN Arrival :
                                     \E k \in DOMAIN Arrival : j < k /\ Arrival[k] = c}}

\* redis_client.expire("vehicle_locations_history", 60 * 60)
HISTORY_TTL == 60 * 60

\* The step of the clock, in seconds: half of the expiry.
TICK == HISTORY_TTL \div 2

\* The history key has no expiry (Redis TTL -1) until expire() arms it.
NO_TTL == 0 - 1

\* ------------------------------------------------------------ JSON helpers
\* A JSON object is an insertion-ordered dict: a sequence of <<key, value>>
\* pairs with distinct keys.  Values are kept as their JSON literal.
\* A text frame is [wf, members]: wf says whether it is well-formed JSON,
\* members are the key/value pairs in the order they are written.

Range(s) == {s[i] : i \in DOMAIN s}

HasKey(d, k) == \E i \in DOMAIN d : d[i][1] = k

\* dict[k] = v : an existing key keeps its position, a new key goes last.
DictSet(d, k, v) ==
    IF HasKey(d, k)
    THEN [i \in DOMAIN d |-> IF d[i][1] = k THEN <<k, v>> ELSE d[i]]
    ELSE Append(d, <<k, v>>)

RECURSIVE DictFrom(_, _)
DictFrom(members, d) ==
    IF members = <<>> THEN d
    ELSE DictFrom(Tail(members), DictSet(d, Head(members)[1], Head(members)[2]))

\* json.loads raises JSONDecodeError exactly on a text that is not JSON.
Parseable(text) == text.wf

\* json.loads(text) for a parseable text (a repeated key keeps the last value).
JsonLoads(text) == DictFrom(text.members, <<>>)

\* json.dumps(obj): the members in insertion order.
JsonDumps(obj) == [wf |-> TRUE, members |-> obj]

\* The fields the handler documents as the expected format.
RequiredFields == {"vehicle_id", "lat", "lng"}

HasRequiredFields(obj) == \A k \in RequiredFields : HasKey(obj, k)

\* The object sent back on a JSONDecodeError.
ErrorObject ==
    << <<"error", "Invalid payload">>,
       <<"expected_format", "{vehicle_id: string, lat: number, lng: number}">>,
       <<"example", "{vehicle_id: EL25G74vBuE, lat: -6.8, lng: 39.3}">> >>

\* websocket.send_json(obj) writes json.dumps(obj) as a text frame.
SendJsonText(obj) == JsonDumps(obj)

\* ---------------------------------------------------------- inbound frames
TextFull ==
    [wf |-> TRUE,
     members |-> << <<"vehicle_id", "V1">>, <<"lat", "-6.8">>, <<"lng", "39.3">> >>]

\* Parseable, lat and lng missing; "vehicle_id" is written twice, so
\* json.loads gives {"vehicle_id": "V1"}.
TextPartial ==
    [wf |-> TRUE, members |-> << <<"vehicle_id", "V0">>, <<"vehicle_id", "V1">> >>]

\* A frame that is not JSON.
TextGarbage == [wf |-> FALSE, members |-> << <<"vehicle_id", "V1">> >>]

Inbound == {TextFull, TextPartial, TextGarbage}

\* The value of the local variable `data` before the first assignment.
NoData == <<>>

\* ------------------------------------------------------------------- state
VARIABLES
    active_connections, \* manager.active_connections : list of websockets
    pc,                 \* per session: the await the coroutine is at
    data,               \* per session: the local variable `data`
    idx,                \* per session: index of broadcast's list iterator
    alive,              \* per websocket: the peer's transport is up
    channel,            \* messages published on "vehicle_locations"
    history,            \* the list at "vehicle_locations_history"
    ttl,                \* expiry of the history key (NO_TTL: none)
    inbox,              \* per websocket: text frames written to the client
    nrecv,              \* inbound frames consumed so far (bounded)
    obs,                \* per session: what happened to the report in hand
    sent,               \* who sent each stored, published and delivered report
    idle,               \* time since the last history append, in ticks
    now,                     \* the clock, in ticks of 1/TicksPerSecond s
    issued,                  \* the tokens the create_* functions have returned
    revoked_access_tokens,   \* security._revoked_access_tokens: <<token, exp>>
    revokedOk,               \* tokens for which revoke_access_token returned True
    last,                    \* the latest call of the security module and its result
    routes,                  \* table routes: the ids of the committed rows
    route_nodes,             \* table route_nodes: per route, node ids by seq_no
    rreq,                    \* per request on routes: position, arguments, transaction
    holder,                  \* the transaction holding the write locks of the route
    vehicles,                \* table vehicles: plate numbers of the committed rows
    vehicles_users,          \* table vehicles_users: <<plate, user, role>>
    vreq                     \* per register_vehicle request: position and arguments

ext == <<channel, history, ttl>>
\* The variables of the live-location subsystem.
live == <<active_connections, pc, data, idx, alive, channel, history, ttl,
          inbox, nrecv, obs, sent, idle>>

\* The variables of the token module (daladala_live/core/security.py).
tokv == <<now, issued, revoked_access_tokens, revokedOk, last>>

\* The variables of the request/response side of the repository.
\* The variables of the routes service (volta_api/routes/service.py).
routev == <<routes, route_nodes, rreq, holder>>

\* The variables of vehicle registration (volta_api/vehicles/router.py).
vehv == <<vehicles, vehicles_users, vreq>>

web == <<tokv, routev, vehv>>

vars == <<live, web>>

\* The handler has returned ("closed") or an exception left it ("crashed").
Terminal == {"closed", "crashed"}

\* The session is between receive_json and the end of broadcast.
Processing(c) == pc[c] \in {"publish", "rpush", "expire", "bcast"}

\* obs[c] is a history variable: it records, while session c processes a
\* report, which steps are complete and who was registered meanwhile.  It is
\* cleared when the report is finished or the session ends.
\*   done          steps of the accept sequence completed for `data`
\*   stableR       connections registered ever since `data` was received
\*   regAtStart    connections registered when broadcast was called
\*   stableB       connections registered ever since broadcast was called
\*   delivered     the targets broadcast has written to, in order
\*   closedAtStart sessions that had already ended when broadcast was called
\*   tag           receipt number of `data` (0: no report in hand)
NoObs ==
    [done |-> {}, stableR |-> {}, regAtStart |-> {}, stableB |-> {},
     delivered |-> <<>>, closedAtStart |-> {}, tag |-> 0]

\* `sent` is a history variable, parallel to the history list, the channel
\* and the report frames of each inbox: entry i is <<session, receipt
\* number>> of the report the i-th element came from.
NoneSent == [hist |-> <<>>, chan |-> <<>>, box |-> [c \in Conn |-> <<>>]]

\* The report session c has in hand.
Tag(c) == <<c, obs[c].tag>>

\* `ws` has left the registry.
Forget(o, ws) == [o EXCEPT !.stableR = @ \ {ws}, !.stableB = @ \ {ws}]

\* ---------------------------------------------------------------- registry
\* list.remove(x): removes the first occurrence.
RECURSIVE ListRemove(_, _)
ListRemove(s, x) ==
    IF s = <<>> THEN s
    ELSE IF Head(s) = x THEN Tail(s)
    ELSE <<Head(s)>> \o ListRemove(Tail(s), x)

\* Variant of ConnectionManager.disconnect: no membership test, the last
\* element is popped when `ws` is not found.
DisconnectOrPop(list, ws) ==
    IF ws \in Range(list) THEN ListRemove(list, ws)
    ELSE IF list = <<>> THEN list ELSE SubSeq(list, 1, Len(list) - 1)

\* ConnectionManager.disconnect
Disconnect(list, ws) == IF ws \in Range(list) THEN ListRemove(list, ws) ELSE list

\* `except WebSocketDisconnect: manager.disconnect(websocket)`, then the
\* handler returns, which closes the websocket.
ExitDisconnect(c) ==
    /\ active_connections' = Disconnect(active_connections, c)
    /\ pc' = [pc EXCEPT ![c] = "closed"]
    /\ alive' = [alive EXCEPT ![c] = FALSE]
    /\ obs' = [d \in Conn |-> IF d = c THEN NoObs ELSE Forget(obs[d], c)]

\* Any other exception leaves the handler through no except clause; the
\* server closes the websocket.
ExitRaise(c) ==
    /\ pc' = [pc EXCEPT ![c] = "crashed"]
    /\ alive' = [alive EXCEPT ![c] = FALSE]
    /\ obs' = [obs EXCEPT ![c] = NoObs]
    /\ UNCHANGED active_connections

\* ------------------------------------------------------------ token module
\* daladala_live/core/security.py.  A token is the JWT's payload with `sig`:
\* whether its signature was made with SECRET_KEY.
ACCESS_TOKEN_EXPIRE_MINUTES == 60
REFRESH_TOKEN_EXPIRE_DAYS == 7
PASSWORD_RESET_TOKEN_EXPIRE_MINUTES == 30
EMAIL_VERIFICATION_TOKEN_EXPIRE_HOURS == 24

\* class TokenType
TokenType == {"access", "refresh", "password_reset", "email_verification"}

\* The timedelta each create_* function adds, in seconds.
Lifetime(type) ==
    CASE type = "access" -> ACCESS_TOKEN_EXPIRE_MINUTES * 60
      [] type = "refresh" -> REFRESH_TOKEN_EXPIRE_DAYS * 24 * 60 * 60
      [] type = "password_reset" -> PASSWORD_RESET_TOKEN_EXPIRE_MINUTES * 60
      [] type = "email_verification" -> EMAIL_VERIFICATION_TOKEN_EXPIRE_HOURS * 60 * 60

\* The clock has sub-second resolution (datetime.now(...).timestamp() is a
\* float): the model counts it in ticks of half a second.
TicksPerSecond == 2

\* timegm(d.utctimetuple()): the whole seconds of an instant; jose uses it
\* for the "exp" claim it writes and for the `now` it compares with.
WholeSeconds(t) == t \div TicksPerSecond

\* The instants at which the model lets calls happen: the start, and the
\* ticks around the expiry of an access token created at the start.
Instants ==
    {0} \cup {Lifetime("access") * TicksPerSecond + k : k \in (0 - 1)..MaxSlack}

Subjects == {"u1"}

\* Optional[str]: the value None.
None == "None"

\* jwt.encode(payload, SECRET_KEY): "exp" is written in whole seconds.
CreateToken(subject, type, t) ==
    [sub |-> subject, exp |-> WholeSeconds(t) + Lifetime(type), type |-> type,
     sig |-> TRUE]

\* A token whose "type" claim was rewritten by its holder: the signature no
\* longer matches the payload.
Retyped(token, type) ==
    [token EXCEPT !.type = type, !.sig = (token.sig /\ type = token.type)]

\* decode_token returns a payload: jwt.decode checks the signature and
\* raises ExpiredSignatureError when exp < now, both in whole seconds.
Decodes(token, t) == token.sig /\ ~(token.exp < WholeSeconds(t))

\* Variant of VerifyToken: the "type" claim is not compared.
VerifyTokenAnyType(token, expected_type, t) ==
    IF ~Decodes(token, t) THEN None ELSE token.sub

\* verify_token
VerifyToken(token, expected_type, t) ==
    IF ~Decodes(token, t) THEN None
    ELSE IF token.type # expected_type THEN None
    ELSE token.sub

\* _cleanup_revoked_tokens: entries with exp <= now_ts are popped
\* (now_ts in seconds, with its fraction).
CleanupRevokedTokens(entries, t) ==
    {e \in entries : ~(e[2] * TicksPerSecond <= t)}

\* `token in _revoked_access_tokens`
IsRevoked(entries, token) == \E e \in entries : e[1] = token

NoCall == [fn |-> "none", token |-> CreateToken("u1", "access", 0), result |-> None]

InitTok ==
    /\ now = 0
    /\ issued = {}
    /\ revoked_access_tokens = {}
    /\ revokedOk = {}
    /\ last = NoCall

\* ----------------------------------------------------------- routes service
\* volta_api/routes/service.py over the tables of routes/models.py.  The
\* model follows one route; a node list is the node_id of each row, the
\* row's seq_no being its position.
RouteId == "r1"

\* The rows the route has before any request of the model: two route nodes
\* created earlier (create_route, create_route_node).
InitialNodes == <<"n1", "n2">>

\* The bodies PUT /{route_id}/nodes is called with: an empty list, lists of
\* existing nodes, and a list naming one node twice (it breaks
\* uq_route_nodes_route_node at its second row).
Payloads == {<<>>, <<"n3">>, <<"n2", "n1">>, <<"n3", "n3">>}

\* The requests that can be in flight together.
Req == {"q1", "q2"}

\* A request that is not running.
NoReq == [pc |-> "idle", op |-> "none", nodes |-> <<>>, tx_nodes |-> <<>>, tx_route |-> FALSE]

\* The request is inside `async with database.transaction()`.
InTx(q) == rreq[q].pc \in {"begin", "delete", "insert", "delete_route", "commit"}

InitRoutes ==
    /\ routes = {RouteId}
    /\ route_nodes = InitialNodes
    /\ rreq = [q \in Req |-> NoReq]
    /\ holder = "free"

\* ------------------------------------------------------ vehicle registration
Plates == {"T100", "T200"}
Users == {"u1", "u2"}

\* VehicleUserRole.OWNER.value
OWNER == "owner"

NoVReq == [pc |-> "idle", plate |-> "T100", user |-> "u1"]

InitVehicles ==
    /\ vehicles = {}
    /\ vehicles_users = {}
    /\ vreq = [q \in Req |-> NoVReq]

InitWeb ==
    /\ InitTok
    /\ InitRoutes
    /\ InitVehicles

\* ------------------------------------------------------------------ actions
Init ==
    /\ active_connections = <<>>
    /\ pc = [c \in Conn |-> "connecting"]
    /\ data = [c \in Conn |-> NoData]
    /\ idx = [c \in Conn |-> 1]
    /\ alive = [c \in Conn |-> TRUE]
    /\ channel = <<>>
    /\ history = <<>>
    /\ ttl = NO_TTL
    /\ inbox = [c \in Conn |-> <<>>]
    /\ nrecv = 0
    /\ obs = [c \in Conn |-> NoObs]
    /\ sent = NoneSent
    /\ idle = 0
    /\ InitWeb

\* Variant of Connect: the websocket is inserted at the head of the list.
ConnectFront(c) ==
    /\ pc[c] = "connecting"
    /\ \A d \in Earlier(c) : pc[d] # "connecting"
    /\ alive[c]
    /\ active_connections' = <<c>> \o active_connections
    /\ pc' = [pc EXCEPT ![c] = "recv"]
    /\ UNCHANGED <<data, idx, alive, ext, inbox, nrecv, obs, sent, idle, web>>

\* Variant of Connect: the websocket is appended twice.
ConnectTwice(c) ==
    /\ pc[c] = "connecting"
    /\ \A d \in Earlier(c) : pc[d] # "connecting"
    /\ alive[c]
    /\ active_connections' = active_connections \o <<c, c>>
    /\ pc' = [pc EXCEPT ![c] = "recv"]
    /\ UNCHANGED <<data, idx, alive, ext, inbox, nrecv, obs, sent, idle, web>>

\* manager.connect: accept() succeeds, the websocket is appended.
Connect(c) ==
    /\ pc[c] = "connecting"
    /\ \A d \in Earlier(c) : pc[d] # "connecting"
    /\ alive[c]
    /\ active_connections' = Append(active_connections, c)
    /\ pc' = [pc EXCEPT ![c] = "recv"]
    /\ UNCHANGED <<data, idx, alive, ext, inbox, nrecv, obs, sent, idle, web>>

\* Variant of ConnectFail: connect appends before it awaits accept(), so a
\* failed handshake leaves the websocket in the list.
ConnectFailRegistered(c) ==
    /\ pc[c] = "connecting"
    /\ \A d \in Earlier(c) : pc[d] # "connecting"
    /\ ~alive[c]
    /\ active_connections' = Append(active_connections, c)
    /\ pc' = [pc EXCEPT ![c] = "crashed"]
    /\ UNCHANGED <<data, idx, alive, ext, inbox, nrecv, obs, sent, idle, web>>

\* manager.connect: accept() raises (the peer is gone); connect is outside
\* the try block and nothing was appended.
ConnectFail(c) ==
    /\ pc[c] = "connecting"
    /\ \A d \in Earlier(c) : pc[d] # "connecting"
    /\ ~alive[c]
    /\ pc' = [pc EXCEPT ![c] = "crashed"]
    /\ UNCHANGED <<active_connections, data, idx, alive, ext, inbox, nrecv, obs,
                   sent, idle, web>>

\* Variant of PeerDrop: the server gives up an idle session that waits in
\* receive_json (an idle timeout), as a disconnect would.
IdleTimeout(c) ==
    /\ pc[c] = "recv"
    /\ alive[c]
    /\ ExitDisconnect(c)
    /\ UNCHANGED <<data, idx, ext, inbox, nrecv, sent, idle, web>>

\* The client's transport goes away (peer closed, network dropped).
PeerDrop(c) ==
    /\ pc[c] \notin Terminal
    /\ alive[c]
    /\ alive' = [alive EXCEPT ![c] = FALSE]
    /\ UNCHANGED <<active_connections, pc, data, idx, ext, inbox, nrecv, obs, sent, idle, web>>

\* data = await websocket.receive_json()  returns an object.
Receive(c, text) ==
    /\ pc[c] = "recv"
    /\ alive[c]
    /\ nrecv < MaxMsgs
    /\ Parseable(text)
    /\ nrecv' = nrecv + 1
    /\ data' = [data EXCEPT ![c] = JsonLoads(text)]
    /\ pc' = [pc EXCEPT ![c] = "publish"]
    /\ obs' = [obs EXCEPT ![c] = [NoObs EXCEPT !.stableR = Range(active_connections),
                                                !.tag = nrecv + 1]]
    /\ UNCHANGED <<active_connections, idx, alive, ext, inbox, sent, idle, web>>

\* Variant of ReceiveMalformed: the rejected text is kept in the history list.
ReceiveMalformedStored(c, text) ==
    /\ pc[c] = "recv"
    /\ alive[c]
    /\ nrecv < MaxMsgs
    /\ ~Parseable(text)
    /\ nrecv' = nrecv + 1
    /\ history' = Append(history, text)
    /\ sent' = [sent EXCEPT !.hist = Append(@, Tag(c))]
    /\ pc' = [pc EXCEPT ![c] = "err_send"]
    /\ UNCHANGED <<active_connections, data, idx, alive, channel, ttl, inbox, obs, idle, web>>

\* receive_json raises json.JSONDecodeError: the inner except clause runs.
ReceiveMalformed(c, text) ==
    /\ pc[c] = "recv"
    /\ alive[c]
    /\ nrecv < MaxMsgs
    /\ ~Parseable(text)
    /\ nrecv' = nrecv + 1
    /\ pc' = [pc EXCEPT ![c] = "err_send"]
    /\ UNCHANGED <<active_connections, data, idx, alive, ext, inbox, obs, sent, idle, web>>

\* receive_json raises WebSocketDisconnect: the outer except clause runs.
ReceiveDisconnect(c) ==
    /\ pc[c] = "recv"
    /\ ~alive[c]
    /\ ExitDisconnect(c)
    /\ UNCHANGED <<data, idx, ext, inbox, nrecv, sent, idle, web>>

\* Variant of ErrorReply: the handler answers and then gives the session up
\* (deregisters and returns) instead of continuing the loop.
ErrorReplyThenClose(c) ==
    /\ pc[c] = "err_send"
    /\ alive[c]
    /\ inbox' = [inbox EXCEPT ![c] = Append(@, SendJsonText(ErrorObject))]
    /\ ExitDisconnect(c)
    /\ UNCHANGED <<data, idx, ext, nrecv, sent, idle, web>>

\* await websocket.send_json({"error": ...}); continue
ErrorReply(c) ==
    /\ pc[c] = "err_send"
    /\ alive[c]
    /\ inbox' = [inbox EXCEPT ![c] = Append(@, SendJsonText(ErrorObject))]
    /\ pc' = [pc EXCEPT ![c] = "recv"]
    /\ UNCHANGED <<active_connections, data, idx, alive, ext, nrecv, obs, sent, idle, web>>

\* The send of the error reply raises: WebSocketDisconnect or another
\* exception, depending on the server stack.
ErrorReplyFail(c, wsd) ==
    /\ pc[c] = "err_send"
    /\ ~alive[c]
    /\ IF wsd THEN ExitDisconnect(c) ELSE ExitRaise(c)
    /\ UNCHANGED <<data, idx, ext, inbox, nrecv, sent, idle, web>>

\* Variant of Publish: the handler goes from the publish straight to
\* manager.broadcast, leaving out the history append and the expiry.
PublishThenBroadcast(c) ==
    /\ pc[c] = "publish"
    /\ channel' = Append(channel, JsonDumps(data[c]))
    /\ sent' = [sent EXCEPT !.chan = Append(@, Tag(c))]
    /\ pc' = [pc EXCEPT ![c] = "bcast"]
    /\ idx' = [idx EXCEPT ![c] = 1]
    /\ obs' = [obs EXCEPT ![c].done = @ \cup {"publish"},
                          ![c].regAtStart = Range(active_connections),
                          ![c].stableB = Range(active_connections),
                          ![c].closedAtStart = {d \in Conn : pc[d] \in Terminal}]
    /\ UNCHANGED <<active_connections, data, alive, history, ttl, inbox, nrecv, idle, web>>

\* await redis_client.publish("vehicle_locations", json.dumps(data))
Publish(c) ==
    /\ pc[c] = "publish"
    /\ channel' = Append(channel, JsonDumps(data[c]))
    /\ sent' = [sent EXCEPT !.chan = Append(@, Tag(c))]
    /\ pc' = [pc EXCEPT ![c] = "rpush"]
    /\ obs' = [obs EXCEPT ![c].done = @ \cup {"publish"}]
    /\ UNCHANGED <<active_connections, data, idx, alive, history, ttl, inbox, nrecv, idle, web>>

\* Variant of Rpush: lpush, the report goes to the head of the list.
RpushFront(c) ==
    /\ pc[c] = "rpush"
    /\ history' = <<JsonDumps(data[c])>> \o history
    /\ sent' = [sent EXCEPT !.hist = <<Tag(c)>> \o @]
    /\ idle' = 0
    /\ pc' = [pc EXCEPT ![c] = "expire"]
    /\ obs' = [obs EXCEPT ![c].done = @ \cup {"rpush"}]
    /\ UNCHANGED <<active_connections, data, idx, alive, channel, ttl, inbox, nrecv, web>>

\* await redis_client.rpush("vehicle_locations_history", json.dumps(data))
Rpush(c) ==
    /\ pc[c] = "rpush"
    /\ history' = Append(history, JsonDumps(data[c]))
    /\ sent' = [sent EXCEPT !.hist = Append(@, Tag(c))]
    /\ idle' = 0
    /\ pc' = [pc EXCEPT ![c] = "expire"]
    /\ obs' = [obs EXCEPT ![c].done = @ \cup {"rpush"}]
    /\ UNCHANGED <<active_connections, data, idx, alive, channel, ttl, inbox, nrecv, web>>

\* await redis_client.expire("vehicle_locations_history", 60 * 60);
\* then manager.broadcast(data) is called and iterates over the list.
Expire(c) ==
    /\ pc[c] = "expire"
    /\ ttl' = HISTORY_TTL
    /\ pc' = [pc EXCEPT ![c] = "bcast"]
    /\ idx' = [idx EXCEPT ![c] = 1]
    /\ obs' = [obs EXCEPT ![c].done = @ \cup {"expire"},
                          ![c].regAtStart = Range(active_connections),
                          ![c].stableB = Range(active_connections),
                          ![c].closedAtStart = {d \in Conn : pc[d] \in Terminal}]
    /\ UNCHANGED <<active_connections, data, alive, channel, history, inbox, nrecv, sent, idle, web>>

\* A Redis call raises (the store or the channel is unreachable).
RedisFail(c) ==
    /\ pc[c] \in {"publish", "rpush", "expire"}
    /\ ExitRaise(c)
    /\ UNCHANGED <<data, idx, ext, inbox, nrecv, sent, idle, web>>

\* One turn of `for connection in self.active_connections:
\*                  await connection.send_json(message)` that sends.
BroadcastSend(c) ==
    /\ pc[c] = "bcast"
    /\ idx[c] <= Len(active_connections)
    /\ LET t == active_connections[idx[c]] IN
        /\ alive[t]
        /\ inbox' = [inbox EXCEPT ![t] = Append(@, SendJsonText(data[c]))]
        /\ obs' = [obs EXCEPT ![c].delivered = Append(@, t)]
        /\ sent' = [sent EXCEPT !.box[t] = Append(@, Tag(c))]
    /\ idx' = [idx EXCEPT ![c] = @ + 1]
    /\ UNCHANGED <<active_connections, pc, data, alive, ext, nrecv, idle, web>>

\* The send to the connection at the iterator raises; the exception leaves
\* broadcast and the loop of the sending session.
BroadcastSendFail(c, wsd) ==
    /\ pc[c] = "bcast"
    /\ idx[c] <= Len(active_connections)
    /\ ~alive[active_connections[idx[c]]]
    /\ IF wsd THEN ExitDisconnect(c) ELSE ExitRaise(c)
    /\ UNCHANGED <<data, idx, ext, inbox, nrecv, sent, idle, web>>

\* The iterator is exhausted: broadcast returns, the loop goes back to
\* receive_json.
BroadcastReturn(c) ==
    /\ pc[c] = "bcast"
    /\ idx[c] > Len(active_connections)
    /\ pc' = [pc EXCEPT ![c] = "recv"]
    /\ obs' = [obs EXCEPT ![c] = NoObs]
    /\ UNCHANGED <<active_connections, data, idx, alive, ext, inbox, nrecv, sent, idle, web>>

Next ==
    \/ \E c \in Conn : Connect(c)
    \/ \E c \in Conn : ConnectFail(c)
    \/ \E c \in Conn : PeerDrop(c)
    \/ \E c \in Conn, text \in Inbound : Receive(c, text)
    \/ \E c \in Conn, text \in Inbound : ReceiveMalformed(c, text)
    \/ \E c \in Conn : ReceiveDisconnect(c)
    \/ \E c \in Conn : ErrorReply(c)
    \/ \E c \in Conn, wsd \in BOOLEAN : ErrorReplyFail(c, wsd)
    \/ \E c \in Conn : Publish(c)
    \/ \E c \in Conn : Rpush(c)
    \/ \E c \in Conn : Expire(c)
    \/ \E c \in Conn : RedisFail(c)
    \/ \E c \in Conn : BroadcastSend(c)
    \/ \E c \in Conn, wsd \in BOOLEAN : BroadcastSendFail(c, wsd)
    \/ \E c \in Conn : BroadcastReturn(c)

Spec == Init /\ [][Next]_vars

\* ------------------------------------------------------------ passing time
\* TICK seconds pass while the history key exists.  Redis counts the key's
\* expiry down; when it runs out the key is deleted: the list is empty and
\* a later rpush creates a key without expiry.  A report is processed in
\* far less than a tick, so no tick falls inside the processing of one.
Tick ==
    /\ history # <<>>
    /\ idle < MaxIdleTicks
    /\ \A c \in Conn : ~Processing(c)
    /\ IF ttl # NO_TTL /\ ttl - TICK <= 0
       THEN /\ history' = <<>>
            /\ ttl' = NO_TTL
            /\ sent' = [sent EXCEPT !.hist = <<>>]
            /\ idle' = 0
       ELSE /\ ttl' = IF ttl = NO_TTL THEN NO_TTL ELSE ttl - TICK
            /\ idle' = idle + 1
            /\ UNCHANGED <<history, sent>>
    /\ UNCHANGED <<active_connections, pc, data, idx, alive, channel, inbox, nrecv, obs, web>>

NextTtl ==
    \/ Next
    \/ Tick

SpecTtl == Init /\ [][NextTtl]_vars

\* ------------------------------------------------------ token module steps
\* The tokens a client can present: the issued ones and copies of them with
\* the "type" claim rewritten.
Presented == {Retyped(tk, ty) : tk \in issued, ty \in TokenType}

\* create_access_token, create_refresh_token, create_password_reset_token,
\* create_email_verification_token
Create(subject, type) ==
    /\ Cardinality(issued) < MaxTokens
    /\ issued' = issued \cup {CreateToken(subject, type, now)}
    /\ last' = [fn |-> "create", token |-> CreateToken(subject, type, now),
                result |-> None]
    /\ UNCHANGED <<now, revoked_access_tokens, revokedOk, live, routev, vehv>>

\* verify_access_token: is_access_token_revoked (which cleans up first),
\* then verify_token.
VerifyAccessToken(token) ==
    /\ revoked_access_tokens' = CleanupRevokedTokens(revoked_access_tokens, now)
    /\ last' = [fn |-> "verify_access_token", token |-> token,
                result |-> IF IsRevoked(revoked_access_tokens', token) THEN None
                           ELSE VerifyToken(token, "access", now)]
    /\ UNCHANGED <<now, issued, revokedOk, live, routev, vehv>>

\* verify_refresh_token
VerifyRefreshToken(token) ==
    /\ last' = [fn |-> "verify_refresh_token", token |-> token,
                result |-> VerifyToken(token, "refresh", now)]
    /\ UNCHANGED <<now, issued, revoked_access_tokens, revokedOk, live, routev, vehv>>

\* verify_password_reset_token
VerifyPasswordResetToken(token) ==
    /\ last' = [fn |-> "verify_password_reset_token", token |-> token,
                result |-> VerifyToken(token, "password_reset", now)]
    /\ UNCHANGED <<now, issued, revoked_access_tokens, revokedOk, live, routev, vehv>>

\* verify_email_verification_token
VerifyEmailVerificationToken(token) ==
    /\ last' = [fn |-> "verify_email_verification_token", token |-> token,
                result |-> VerifyToken(token, "email_verification", now)]
    /\ UNCHANGED <<now, issued, revoked_access_tokens, revokedOk, live, routev, vehv>>

\* revoke_access_token (every token of the model carries "exp").
RevokeAccessToken(token) ==
    /\ IF ~Decodes(token, now) \/ token.type # "access"
       THEN /\ last' = [fn |-> "revoke_access_token", token |-> token, result |-> "False"]
            /\ UNCHANGED <<revoked_access_tokens, revokedOk>>
       ELSE /\ revoked_access_tokens' =
                  {e \in revoked_access_tokens : e[1] # token} \cup {<<token, token.exp>>}
            /\ revokedOk' = revokedOk \cup {token}
            /\ last' = [fn |-> "revoke_access_token", token |-> token, result |-> "True"]
    /\ UNCHANGED <<now, issued, live, routev, vehv>>

\* Time passes, to a later instant.
Advance(t) ==
    /\ t > now
    /\ now' = t
    /\ UNCHANGED <<issued, revoked_access_tokens, revokedOk, last, live, routev, vehv>>

NextTok ==
    \/ \E subject \in Subjects, type \in TokenType : Create(subject, type)
    \/ \E token \in Presented : VerifyAccessToken(token)
    \/ \E token \in Presented : VerifyRefreshToken(token)
    \/ \E token \in Presented : VerifyPasswordResetToken(token)
    \/ \E token \in Presented : VerifyEmailVerificationToken(token)
    \/ \E token \in Presented : RevokeAccessToken(token)
    \/ \E t \in Instants : Advance(t)

SpecTok == Init /\ [][NextTok]_vars

\* ------------------------------------------------------ routes service steps
\* Every statement of a transaction runs on the transaction's own view
\* (tx_nodes, tx_route); other connections read the committed tables.  The
\* first write of a transaction waits for the row locks of the route, which
\* the holder keeps until it commits or rolls back (InnoDB).

\* Variant of DeleteNodes: no transaction, the delete is committed at once.
DeleteNodesAutocommit(q) ==
    /\ rreq[q].pc = "delete"
    /\ holder \in {"free", q}
    /\ holder' = q
    /\ route_nodes' = <<>>
    /\ rreq' = [rreq EXCEPT ![q].tx_nodes = <<>>,
                            ![q].tx_route = RouteId \in routes,
                            ![q].pc = IF rreq[q].op = "replace" THEN "insert"
                                      ELSE "delete_route"]
    /\ UNCHANGED <<routes, live, tokv, vehv>>

\* replace_route_nodes_endpoint: the route is looked up (404 when absent),
\* then replace_route_nodes(route_id, nodes) is called.
StartReplace(q, nodes) ==
    /\ rreq[q].pc = "idle"
    /\ RouteId \in routes
    /\ rreq' = [rreq EXCEPT ![q] = [NoReq EXCEPT !.pc = "begin", !.op = "replace",
                                                !.nodes = nodes]]
    /\ UNCHANGED <<routes, route_nodes, holder, live, tokv, vehv>>

\* The delete endpoint calls delete_route(route_id).
StartDelete(q) ==
    /\ rreq[q].pc = "idle"
    /\ RouteId \in routes
    /\ rreq' = [rreq EXCEPT ![q] = [NoReq EXCEPT !.pc = "begin", !.op = "delete"]]
    /\ UNCHANGED <<routes, route_nodes, holder, live, tokv, vehv>>

\* async with database.transaction(): BEGIN.
Begin(q) ==
    /\ rreq[q].pc = "begin"
    /\ rreq' = [rreq EXCEPT ![q].pc = "delete"]
    /\ UNCHANGED <<routes, route_nodes, holder, live, tokv, vehv>>

\* DELETE FROM route_nodes WHERE route_id = :route_id, inside the
\* transaction; it sees the committed rows once it has the locks.
DeleteNodes(q) ==
    /\ rreq[q].pc = "delete"
    /\ holder \in {"free", q}
    /\ holder' = q
    /\ rreq' = [rreq EXCEPT ![q].tx_nodes = <<>>,
                            ![q].tx_route = RouteId \in routes,
                            ![q].pc = IF rreq[q].op = "replace" THEN "insert"
                                      ELSE "delete_route"]
    /\ UNCHANGED <<routes, route_nodes, live, tokv, vehv>>

\* execute_many: the next row of the payload is inserted.
InsertRow(q) ==
    /\ rreq[q].pc = "insert"
    /\ Len(rreq[q].tx_nodes) < Len(rreq[q].nodes)
    /\ rreq[q].tx_route
    /\ rreq[q].nodes[Len(rreq[q].tx_nodes) + 1] \notin Range(rreq[q].tx_nodes)
    /\ rreq' = [rreq EXCEPT ![q].tx_nodes =
                   Append(@, rreq[q].nodes[Len(rreq[q].tx_nodes) + 1])]
    /\ UNCHANGED <<routes, route_nodes, holder, live, tokv, vehv>>

\* `if nodes:` is false, or every row is inserted: the block ends.
InsertDone(q) ==
    /\ rreq[q].pc = "insert"
    /\ Len(rreq[q].tx_nodes) = Len(rreq[q].nodes)
    /\ rreq' = [rreq EXCEPT ![q].pc = "commit"]
    /\ UNCHANGED <<routes, route_nodes, holder, live, tokv, vehv>>

\* DELETE FROM routes WHERE id = :route_id, inside the transaction.
DeleteRouteRow(q) ==
    /\ rreq[q].pc = "delete_route"
    /\ rreq' = [rreq EXCEPT ![q].tx_route = FALSE, ![q].pc = "commit"]
    /\ UNCHANGED <<routes, route_nodes, holder, live, tokv, vehv>>

\* The block is left normally: COMMIT makes the transaction's view the
\* committed one and releases its locks; the function returns.
Commit(q) ==
    /\ rreq[q].pc = "commit"
    /\ route_nodes' = rreq[q].tx_nodes
    /\ routes' = IF rreq[q].tx_route THEN routes ELSE routes \ {RouteId}
    /\ holder' = "free"
    /\ rreq' = [rreq EXCEPT ![q] = NoReq]
    /\ UNCHANGED <<live, tokv, vehv>>

\* A statement raises inside the block (a row breaks a unique constraint or
\* the foreign key to routes, the connection is lost, the task is
\* cancelled): the transaction is rolled back and the exception propagates.
Rollback(q) ==
    /\ InTx(q)
    /\ holder' = IF holder = q THEN "free" ELSE holder
    /\ rreq' = [rreq EXCEPT ![q] = NoReq]
    /\ UNCHANGED <<routes, route_nodes, live, tokv, vehv>>

NextRoutes ==
    \/ \E q \in Req, nodes \in Payloads : StartReplace(q, nodes)
    \/ \E q \in Req : StartDelete(q)
    \/ \E q \in Req : Begin(q)
    \/ \E q \in Req : DeleteNodes(q)
    \/ \E q \in Req : InsertRow(q)
    \/ \E q \in Req : InsertDone(q)
    \/ \E q \in Req : DeleteRouteRow(q)
    \/ \E q \in Req : Commit(q)
    \/ \E q \in Req : Rollback(q)

SpecRoutes == Init /\ [][NextRoutes]_vars

\* -------------------------------------------------- vehicle registration steps
\* POST /volta/api/vehicles by `user` with `plate` in the payload.
StartRegister(q, plate, user) ==
    /\ vreq[q].pc = "idle"
    /\ vreq' = [vreq EXCEPT ![q] = [pc |-> "check", plate |-> plate, user |-> user]]
    /\ UNCHANGED <<vehicles, vehicles_users, live, tokv, routev>>

\* existing = await get_vehicle_by_plate_number(...): 400 when it exists.
CheckPlate(q) ==
    /\ vreq[q].pc = "check"
    /\ vreq' = [vreq EXCEPT ![q] = IF vreq[q].plate \in vehicles THEN NoVReq
                                   ELSE [@ EXCEPT !.pc = "create"]]
    /\ UNCHANGED <<vehicles, vehicles_users, live, tokv, routev>>

\* vehicle = await create_vehicle(...): the row is inserted and committed;
\* the insert raises when another request has taken the plate meanwhile
\* (unique plate_number) or the database fails.
CreateVehicle(q) ==
    /\ vreq[q].pc = "create"
    /\ vreq[q].plate \notin vehicles
    /\ vehicles' = vehicles \cup {vreq[q].plate}
    /\ vreq' = [vreq EXCEPT ![q].pc = "assign"]
    /\ UNCHANGED <<vehicles_users, live, tokv, routev>>

CreateVehicleFail(q) ==
    /\ vreq[q].pc = "create"
    /\ vreq' = [vreq EXCEPT ![q] = NoVReq]
    /\ UNCHANGED <<vehicles, vehicles_users, live, tokv, routev>>

\* await assign_user_to_vehicle({... "role": OWNER}): the row is inserted
\* and the handler returns 201.
AssignUser(q) ==
    /\ vreq[q].pc = "assign"
    /\ vehicles_users' = vehicles_users \cup {<<vreq[q].plate, vreq[q].user, OWNER>>}
    /\ vreq' = [vreq EXCEPT ![q] = NoVReq]
    /\ UNCHANGED <<vehicles, live, tokv, routev>>

\* assign_user_to_vehicle raises (the database fails, the task is
\* cancelled): the exception leaves the handler.
AssignUserFail(q) ==
    /\ vreq[q].pc = "assign"
    /\ vreq' = [vreq EXCEPT ![q] = NoVReq]
    /\ UNCHANGED <<vehicles, vehicles_users, live, tokv, routev>>

NextVehicles ==
    \/ \E q \in Req, plate \in Plates, user \in Users : StartRegister(q, plate, user)
    \/ \E q \in Req : CheckPlate(q)
    \/ \E q \in Req : CreateVehicle(q)
    \/ \E q \in Req : CreateVehicleFail(q)
    \/ \E q \in Req : AssignUser(q)
    \/ \E q \in Req : AssignUserFail(q)

SpecVehicles == Init /\ [][NextVehicles]_vars

\* ================================================================== claims
\* The frame a client reads for the error reply.
ErrorFrame == SendJsonText(ErrorObject)

\* Session c's broadcast returns in this step (every send of it is done).
Returns(c) == pc[c] = "bcast" /\ pc'[c] = "recv"

\* Session c's broadcast is left by an exception in this step.
Aborts(c) == pc[c] = "bcast" /\ pc'[c] \in Terminal

\* Session c's broadcast takes a turn of its loop in this step.
Turns(c) ==
    /\ pc[c] = "bcast"
    /\ idx[c] <= Len(active_connections)
    /\ (idx'[c] # idx[c] \/ pc'[c] # pc[c])

\* Some frame of t's inbox carries exactly the object `o`.
Got(t, o) == \E i \in DOMAIN inbox[t] : JsonLoads(inbox[t][i]) = o

C2_FinishedReportEverywhere ==
    [][\A c \in Conn : Returns(c) =>
          /\ JsonDumps(data[c]) \in Range(history)
          /\ JsonDumps(data[c]) \in Range(channel)
          /\ \A t \in obs[c].stableR \ {c} :
                t \in Range(obs[c].delivered) /\ Got(t, data[c])]_vars

\* C3 (as stated): a finished broadcast has given the received object,
\* unmodified, to every registered connection, the sender included.
C3_BroadcastReachesAllAndSender ==
    [][\A c \in Conn : Returns(c) =>
          \A t \in obs[c].stableB \cup {c} :
                t \in Range(obs[c].delivered) /\ Got(t, data[c])]_vars

\* C4: a frame that is not JSON changes nothing but the session's position;
\* the reply to it is one error frame to the sender alone, after which the
\* session is registered and back at receive_json, with history, channel
\* and every other inbox untouched.  (The reply is written while the
\* sender's transport is up; on a vanished peer the send raises.)
C4_MalformedKeepsSession ==
    /\ [](\A c \in Conn : pc[c] = "err_send" => c \in Range(active_connections))
    /\ [][\A c \in Conn :
            /\ (pc[c] = "recv" /\ pc'[c] \notin {"recv", "publish"} /\ alive[c]) =>
                  /\ pc'[c] = "err_send"
                  /\ UNCHANGED <<active_connections, ext, inbox, data>>
            /\ (pc[c] = "err_send" /\ pc'[c] # "err_send" /\ alive[c]) =>
                  /\ pc'[c] = "recv"
                  /\ inbox'[c] = Append(inbox[c], ErrorFrame)
                  /\ \A d \in Conn \ {c} : inbox'[d] = inbox[d]
                  /\ UNCHANGED <<active_connections, ext, data>>]_vars

\* C4 witness: a session was answered the error frame and then had its next
\* message accepted and broadcast back to it.
C4_Witness ==
    \E c \in Conn :
        /\ pc[c] = "bcast"
        /\ c \in Range(active_connections)
        /\ inbox[c] = <<ErrorFrame, SendJsonText(data[c])>>

\* C5 (as stated): an object lacking vehicle_id, lat or lng is answered with
\* the error frame and never reaches the channel, the history or a client.
C5_MissingFieldRejected ==
    /\ \A c \in Conn : Processing(c) => HasRequiredFields(data[c])
    /\ \A i \in DOMAIN history : HasRequiredFields(JsonLoads(history[i]))
    /\ \A i \in DOMAIN channel : HasRequiredFields(JsonLoads(channel[i]))
    /\ \A t \in Conn : \A i \in DOMAIN inbox[t] :
          inbox[t][i] = ErrorFrame \/ HasRequiredFields(JsonLoads(inbox[t][i]))

\* C6 (as stated): when a send of a broadcast fails, the other connections
\* that stayed registered and are still up have all received the message.
C6_SendFailureIsolated ==
    [][\A c \in Conn : Aborts(c) =>
          \A t \in obs[c].stableB \ {c} :
                alive[t] => t \in Range(obs[c].delivered)]_vars

\* C7 (as stated): a session whose handler has returned or raised is not in
\* active_connections.
C7_ExitDeregisters ==
    \A c \in Conn : pc[c] \in Terminal => c \notin Range(active_connections)

\* C8 (as stated): a broadcast never attempts a send on the connection of a
\* session that had ended before the broadcast began.
C8_NoSendToClosed ==
    [][\A c \in Conn : Turns(c) =>
          active_connections[idx[c]] \notin obs[c].closedAtStart]_vars

\* C9 (as stated): a broadcast during which connections were deregistered
\* returns having written to every connection that stayed registered, and
\* every connection it writes to is registered at that moment.
C9_NoTornIteration ==
    [][\A c \in Conn :
          /\ (Returns(c) /\ obs[c].stableB # obs[c].regAtStart) =>
                obs[c].stableB \subseteq Range(obs[c].delivered)
          /\ \A t \in Conn :
                (Turns(c) /\ inbox'[t] # inbox[t]) => t \in Range(active_connections)]_vars

\* C10 (as stated): the connection on which a broadcast's send failed is out
\* of the registry once the failure has been handled.
C10_FailedTargetRemoved ==
    [][\A c \in Conn : Aborts(c) =>
          active_connections[idx[c]] \notin Range(active_connections')]_vars

\* C11 (as stated): a failing history append does not end the session: the
\* step that leaves the rpush never takes the handler to its end.
C11_StoreFailureNonFatal ==
    [][\A c \in Conn : (pc[c] = "rpush" /\ pc'[c] # "rpush") =>
          pc'[c] \notin Terminal]_vars

\* C12 (as stated): a failing publish does not end the session: the step
\* that leaves the publish never takes the handler to its end.
C12_ChannelFailureNonFatal ==
    [][\A c \in Conn : (pc[c] = "publish" /\ pc'[c] # "publish") =>
          pc'[c] \notin Terminal]_vars

\* C13 (as stated): a broadcast's send that fails on another session's
\* connection does not end the broadcasting session.
C13_FailureScopedToRecipient ==
    [][\A c \in Conn : (Turns(c) /\ active_connections[idx[c]] # c) =>
          pc'[c] \notin Terminal]_vars

\* C14 (as stated): every append re-arms the expiry of the history key to
\* HISTORY_TTL seconds from that append: the key never expires sooner than
\* HISTORY_TTL seconds after the latest append to it.
C14_AppendRearmsExpiry ==
    [][(history # <<>> /\ history' = <<>>) => (idle + 1) * TICK >= HISTORY_TTL]_vars

\* C15 (as stated): once HISTORY_TTL seconds have passed since the last
\* append the key is gone: the list is empty and carries no expiry, as for
\* a key that never existed.
C15_QuietKeyExpires ==
    idle * TICK >= HISTORY_TTL => (history = <<>> /\ ttl = NO_TTL)

\* C16: on the registry as the program holds it, disconnect of an absent
\* connection returns the list unchanged, and a second disconnect of any
\* connection changes nothing more than the first.
C16_DisconnectIdempotent ==
    \A ws \in Conn :
        /\ ws \notin Range(active_connections) =>
              Disconnect(active_connections, ws) = active_connections
        /\ Disconnect(Disconnect(active_connections, ws), ws)
              = Disconnect(active_connections, ws)
        /\ ws \notin Range(Disconnect(active_connections, ws))

\* C16 witness: one session has been deregistered (a further disconnect of
\* it finds it absent) while others are still in the list.
C16_Witness ==
    \E ws \in Conn :
        /\ pc[ws] = "closed"
        /\ ws \notin Range(active_connections)
        /\ Len(active_connections) >= 2

\* The reports of one session appear in `tags` in the order of their receipt.
InReceiptOrder(tags) ==
    \A i, j \in DOMAIN tags :
        (i < j /\ tags[i][1] = tags[j][1]) => tags[i][2] < tags[j][2]

\* C17: the reports of one session are appended to the history list,
\* published and written to every recipient in the order the session
\* received them; while a report is in hand nothing of a later report of
\* that session exists anywhere.
C17_ReceiptOrder ==
    /\ Len(sent.hist) = Len(history) /\ Len(sent.chan) = Len(channel)
    /\ InReceiptOrder(sent.hist)
    /\ InReceiptOrder(sent.chan)
    /\ \A t \in Conn : InReceiptOrder(sent.box[t])
    /\ \A c \in Conn : Processing(c) =>
          \A tg \in Range(sent.hist) \cup Range(sent.chan)
                     \cup UNION {Range(sent.box[t]) : t \in Conn} :
              tg[1] = c => tg[2] <= obs[c].tag

\* C17 witness: one session has had two reports appended to the history
\* list and delivered to another connection.
C17_Witness ==
    \E c \in Conn, t \in Conn : \E m, n \in 1..MaxMsgs :
        /\ t # c /\ m < n
        /\ {<<c, m>>, <<c, n>>} \subseteq Range(sent.hist)
        /\ {<<c, m>>, <<c, n>>} \subseteq Range(sent.box[t])

\* C18 (as stated): while a broadcast runs, every registered live connection
\* it still owes the message can be written to now, whatever the state of
\* the sends to the other connections.
C18_SendsIndependent ==
    \A c \in Conn : pc[c] = "bcast" =>
        \A t \in Range(active_connections) \ Range(obs[c].delivered) :
            alive[t] =>
                /\ idx[c] <= Len(active_connections)
                /\ active_connections[idx[c]] = t

\* C19: a websocket enters the list only in the step in which its accept
\* succeeds; a session that has not been accepted is not in the list; a failed
\* accept ends the session unregistered; an ended session stays ended and
\* is never added to the list again.
C19_Lifecycle ==
    /\ [](\A c \in Conn : pc[c] = "connecting" => c \notin Range(active_connections))
    /\ [][\A c \in Conn :
            /\ (c \notin Range(active_connections) /\ c \in Range(active_connections')) =>
                  (pc[c] = "connecting" /\ alive[c] /\ pc'[c] = "recv")
            /\ (pc[c] = "connecting" /\ pc'[c] # "connecting") =>
                  \/ pc'[c] = "recv" /\ c \in Range(active_connections')
                  \/ pc'[c] \in Terminal /\ c \notin Range(active_connections')
            /\ pc'[c] = "connecting" => pc[c] = "connecting"
            /\ pc[c] \in Terminal => pc'[c] = pc[c]]_vars

\* C19 witness: one session's accept failed, another was accepted and has
\* since been closed, a third is open.
C19_Witness ==
    \E a, b, c \in Conn :
        /\ pc[a] = "crashed" /\ a \notin Range(active_connections)
        /\ pc[b] = "closed"
        /\ pc[c] = "recv" /\ c \in Range(active_connections)

\* C20 (as stated): the step that ends an open session removes its websocket
\* from the list (one deregistration), whatever ends it.
C20_CloseDeregistersOnce ==
    [][\A c \in Conn :
          (pc[c] \notin Terminal \cup {"connecting"} /\ pc'[c] \in Terminal) =>
              /\ c \in Range(active_connections)
              /\ c \notin Range(active_connections')
              /\ Len(active_connections') = Len(active_connections) - 1]_vars

\* Session c waits in receive_json with its transport up.
Idle(c) == pc[c] = "recv" /\ alive[c]

\* C21: no timeout ends an idle session.  However much time passes, a
\* session that waits in receive_json with its transport up leaves that
\* await only by taking an inbound frame; until then it stays open and in
\* the list, and a broadcast whose turn comes to it writes the message to it.
C21_NoIdleTimeout ==
    [][\A c \in Conn : Idle(c) =>
          /\ c \in Range(active_connections) /\ c \in Range(active_connections')
          /\ pc'[c] \in {"recv", "publish", "err_send"}
          /\ nrecv' = nrecv => pc'[c] = "recv"
          /\ \A d \in Conn : (Turns(d) /\ active_connections[idx[d]] = c) =>
                inbox'[c] = Append(inbox[c], SendJsonText(data[d]))]_vars

\* C21 witness: a session that never sent anything has idled through two
\* broadcasts of other sessions and through the hour after which the
\* history key expired, and is still open and registered.
C21_Witness ==
    \E c \in Conn :
        /\ Idle(c) /\ c \in Range(active_connections)
        /\ history = <<>>
        /\ Len(sent.box[c]) = 2
        /\ \A i \in DOMAIN sent.chan : sent.chan[i][1] # c

\* No element occurs twice in the sequence.
NoDup(s) == \A i, j \in DOMAIN s : i # j => s[i] # s[j]

\* C22: a connection registered while a broadcast is under way does not
\* disturb it.  In a broadcast during which a connection has registered and
\* none of those registered at its start has left, nobody is written to
\* twice, and once the iterator is exhausted every connection registered at
\* the start has been written to (so exactly once).
C22_RegisterDuringBroadcast ==
    \A c \in Conn :
        (/\ pc[c] = "bcast"
         /\ Range(active_connections) \ obs[c].regAtStart # {}
         /\ obs[c].stableB = obs[c].regAtStart) =>
            /\ NoDup(obs[c].delivered)
            /\ idx[c] > Len(active_connections) =>
                  obs[c].regAtStart \subseteq Range(obs[c].delivered)

\* C22 witness: a broadcast begun with two registered connections has come
\* to its end; a third registered meanwhile and was written to as well.
C22_Witness ==
    \E c \in Conn :
        /\ pc[c] = "bcast" /\ idx[c] > Len(active_connections)
        /\ Cardinality(obs[c].regAtStart) = 2
        /\ obs[c].stableB = obs[c].regAtStart
        /\ Range(obs[c].delivered) \ obs[c].regAtStart # {}

\* C23: one broadcast call writes its report to no connection twice,
\* whatever registered or deregistered while it ran.
C23_NoDuplicateDelivery ==
    /\ \A c \in Conn : NoDup(obs[c].delivered)
    /\ \A t \in Conn : NoDup(sent.box[t])

\* C23 witness: a broadcast has written to two connections while one
\* connection left the list and another entered it.
C23_Witness ==
    \E c \in Conn :
        /\ pc[c] = "bcast"
        /\ Len(obs[c].delivered) = 2
        /\ obs[c].regAtStart \ Range(active_connections) # {}
        /\ Range(active_connections) \ obs[c].regAtStart # {}

\* C24: no websocket is in active_connections twice, so one disconnect
\* removes it completely; and a session registers once: the list grows only
\* by the websocket of a session that was not in it.
C24_RegisteredOnce ==
    /\ [](NoDup(active_connections) /\
          \A ws \in Conn : ws \notin Range(Disconnect(active_connections, ws)))
    /\ [][Len(active_connections') > Len(active_connections) =>
            \E ws \in Conn \ Range(active_connections) :
                active_connections' = Append(active_connections, ws)]_vars

\* C24 witness: three websockets are registered and one of them has then
\* been removed by its disconnect.
C24_Witness ==
    /\ Len(active_connections) = 2
    /\ \E ws \in Conn : pc[ws] = "closed"

\* C25 (as stated): whenever no session is between its rpush and its
\* expire, a non-empty history list has an expiry.
C25_HistoryHasExpiry ==
    (history # <<>> /\ \A c \in Conn : pc[c] # "expire") => ttl # NO_TTL

\* Session c takes a step of the handling of a frame that is not JSON.
MalformedStep(c) ==
    \/ pc[c] = "recv" /\ pc'[c] = "err_send"
    \/ pc[c] = "err_send" /\ pc'[c] # "err_send"

\* C26: the handling of a frame that is not JSON publishes nothing, appends
\* nothing and does not touch the expiry, and it leaves the list as it is;
\* only when the peer is gone and the reply cannot be sent does the session
\* end, as for any disconnect, and nothing but its own websocket leaves.
C26_MalformedTouchesNothing ==
    [][\A c \in Conn : MalformedStep(c) =>
          /\ UNCHANGED <<channel, history, ttl>>
          /\ pc'[c] \notin Terminal => UNCHANGED active_connections
          /\ pc'[c] \in Terminal =>
                (~alive[c] /\ active_connections' \in
                     {active_connections, Disconnect(active_connections, c)})]_vars

\* C26 witness: a session's report was stored with its expiry armed, its
\* next frame was not JSON and has been answered; the store is as it was.
C26_Witness ==
    \E c \in Conn :
        /\ pc[c] = "recv" /\ c \in Range(active_connections)
        /\ nrecv = 2 /\ Len(history) = 1 /\ Len(channel) = 1 /\ ttl = HISTORY_TTL
        /\ Len(inbox[c]) = 2 /\ inbox[c][2] = ErrorFrame

\* C27 (as stated): a token for which revoke_access_token returned True is
\* refused by every later verify_access_token.
C27_RevokedStaysRefused ==
    (last.fn = "verify_access_token" /\ last.token \in revokedOk) =>
        last.result = None

\* The TokenType each verify_* function expects.
ExpectedType(fn) ==
    CASE fn = "verify_access_token" -> "access"
      [] fn = "verify_refresh_token" -> "refresh"
      [] fn = "verify_password_reset_token" -> "password_reset"
      [] fn = "verify_email_verification_token" -> "email_verification"
      [] OTHER -> None

\* C28: a verify_* function returns a subject only for a token signed by
\* the server whose "type" claim is the type of that function, and the
\* subject is the token's own.
C28_TokensConfinedToType ==
    (ExpectedType(last.fn) # None /\ last.result # None) =>
        /\ last.token.type = ExpectedType(last.fn)
        /\ last.token.sig
        /\ last.result = last.token.sub

\* C28 witness: an unexpired refresh token issued by the server was
\* presented as an access token and refused, and a password-reset token
\* has been issued as well.
C28_Witness ==
    /\ last.fn = "verify_access_token"
    /\ last.token \in issued /\ last.token.type = "refresh"
    /\ Decodes(last.token, now)
    /\ last.result = None
    /\ \E tk \in issued : tk.type = "password_reset"

\* C29: the committed rows of the route change only in the step in which a
\* transaction commits, and then as a whole: replace_route_nodes leaves
\* exactly its list (and the route), delete_route removes the route and
\* all its route nodes; a request that fails changes nothing, and no
\* committed state holds route nodes of an absent route.
C29_ReplaceIsAtomic ==
    /\ [](routes = {} => route_nodes = <<>>)
    /\ [][(route_nodes' # route_nodes \/ routes' # routes) =>
            \E q \in Req :
                /\ rreq[q].pc = "commit" /\ rreq'[q].pc = "idle"
                /\ rreq[q].op = "replace" =>
                      (route_nodes' = rreq[q].nodes /\ routes' = routes)
                /\ rreq[q].op = "delete" =>
                      (route_nodes' = <<>> /\ routes' = {})]_vars

\* C29 witness: the route holds a list that a replace committed, and a
\* second replace, which has deleted the rows and inserted one of its two,
\* is about to fail on the second.
C29_Witness ==
    \E q \in Req :
        /\ route_nodes = <<"n2", "n1">>
        /\ rreq[q].pc = "insert"
        /\ rreq[q].nodes = <<"n3", "n3">>
        /\ rreq[q].tx_nodes = <<"n3">>

\* C30 (as stated): whenever no registration is between its two inserts for
\* it, a stored vehicle has a VehicleUser row with the OWNER role.
C30_VehicleHasOwner ==
    \A plate \in vehicles :
        (\A q \in Req : ~(vreq[q].pc = "assign" /\ vreq[q].plate = plate)) =>
            \E user \in Users : <<plate, user, OWNER>> \in vehicles_users

TypeOK ==
    /\ Range(active_connections) \subseteq Conn
    /\ pc \in [Conn -> {"connecting", "recv", "err_send", "publish", "rpush",
                        "expire", "bcast", "closed", "crashed"}]
    /\ ttl \in {NO_TTL} \cup 1..HISTORY_TTL
    /\ idle \in 0..MaxIdleTicks
    /\ nrecv \in 0..MaxMsgs
====
